---- MODULE Spec2Model ----
(***************************************************************************)
(* A model of two parts of wolframclient:                                  *)
(*   - WolframKernelPool (evaluation/kernel/kernelpool.py): a pool of      *)
(*     kernel sessions, one worker loop per started session, all loops     *)
(*     draining one asyncio.Queue;                                         *)
(*   - SerializationContext and WXFExprSerializer                          *)
(*     (serializers/wxfencoder/serializer.py).                             *)
(* The pool is checked under Spec; the later specifications are for the    *)
(* serializer.                                                             *)
(***************************************************************************)
EXTENDS Integers, Sequences, FiniteSets, TLC

\* ------------------------------------------------------------------ bounds
MaxPoolSize == 2
MaxLoadFactor == 1
MaxTasks == 2
MaxFaults == 1

\* ------------------------------------------------------------- pool state
VARIABLES
    poolsize,            \* requestedsize, the poolsize argument of __init__
    load_factor,         \* the load_factor argument of __init__
    queue,               \* self._queue: task ids, None for the stop sentinel
    kernels,             \* self._kernels
    started_tasks,       \* self._started_tasks: the sessions whose loop is registered
    pending_init_tasks,  \* self._pending_init_tasks (NotSet before start())
    eval_count,          \* self.eval_count
    kinit,               \* position of each session's _async_start_kernel task
    kterm,               \* each session's async_terminate: not invoked, running, ok, err
    loop,                \* position of each session's _kernel_loop task
    cur,                 \* the task a loop holds (its local variable task), None if none
    startPc,             \* position of the caller of start()
    termPc,              \* position of the caller of terminate()
    sentLeft,            \* sentinels terminate() has still to put
    termResult,          \* how terminate() ended
    call,                \* position of the caller of each evaluate()
    fut,                 \* each evaluation's future
    ret,                 \* what each evaluate() call gave its caller
    raised,              \* what the session operation of each task did
    running,             \* the tasks whose session call is running on each session
    faults               \* cancellations and interrupts from outside so far

poolvars == <<poolsize, load_factor, queue, kernels, started_tasks,
              pending_init_tasks, eval_count, kinit, kterm, loop, cur, startPc,
              termPc, sentLeft, termResult, call, fut, ret, raised, running,
              faults>>

\* ------------------------------------------------- serializer state
VARIABLES
    context,             \* a SerializationContext: _depth and its three stacks
    frames,              \* history: the frames opened and not yet complete, innermost last
    last,                \* history: the last call made on the context
    ncalls,              \* calls made on the context so far
    minlen,              \* the smallest declared length the caller passes
    tokens,              \* the WXF tokens the provider has still to yield
    truncated,           \* history: the token sequence leaves out a node's last child
    compress,            \* WXFExprSerializer._compress
    out,                 \* what was written to the stream, WXFExprSerializer._writer
    zipped,              \* token writes held by the open ZipCompressedWriter
    serPc,               \* position of serialize()
    serErr               \* the exception serialize() raised, "none" if none

servars == <<context, frames, last, ncalls, minlen, tokens, truncated, compress, out,
             zipped, serPc, serErr>>

\* ------------------------------------------------- varint_bytes state
VARIABLES
    vin,                 \* the argument of varint_bytes: its sign and its magnitude
    int_value,           \* the local int_value, shifted right as the loop goes
    buf,                 \* the local buf, bytearray(9)
    count,               \* the local count
    vret,                \* the bytes varint_bytes returned
    vpc,                 \* position of varint_bytes
    verr                 \* the exception varint_bytes raised, "none" if none

varintvars == <<vin, int_value, buf, count, vret, vpc, verr>>

vars == <<poolvars, servars, varintvars>>

None == 0
NotSet == "None"
\* the exception a session operation raises for task t: each evaluation's own
ErrorOf(t) == "E" \o ToString(t)
Kernels == 1..poolsize
Tasks == 1..MaxTasks
LoadFactors == (0 - 1)..MaxLoadFactor
PoolSizes == 1..MaxPoolSize

\* full with the comparison off by one
full_above(q) == load_factor * poolsize > 0 /\ Len(q) > load_factor * poolsize

\* asyncio.Queue(load_factor * poolsize): maxsize <= 0 is an unbounded queue
maxsize == load_factor * poolsize
full(q) == maxsize > 0 /\ Len(q) >= maxsize

InitDone(k) == kinit[k] \in {"failed", "started"}

\* The sessions are interchangeable: they are numbered in the order in which
\* their async_start() calls end.
InOrder(k) == IF k = 1 THEN TRUE ELSE kinit[k - 1] # "starting"

\* WolframKernelPool.__init__
PoolInit ==
    /\ poolsize \in PoolSizes
    /\ load_factor \in LoadFactors
    /\ queue = <<>>
    /\ kernels = 1..poolsize
    /\ started_tasks = {}
    /\ pending_init_tasks = NotSet
    /\ eval_count = 0
    /\ kinit = [k \in 1..poolsize |-> "new"]
    /\ kterm = [k \in 1..poolsize |-> "no"]
    /\ loop = [k \in 1..poolsize |-> "none"]
    /\ cur = [k \in 1..poolsize |-> None]
    /\ startPc = "idle"
    /\ termPc = "idle"
    /\ sentLeft = 0
    /\ termResult = "none"
    /\ call = [t \in Tasks |-> "idle"]
    /\ fut = [t \in Tasks |-> "pending"]
    /\ ret = [t \in Tasks |-> "none"]
    /\ raised = [t \in Tasks |-> "none"]
    /\ running = [k \in 1..poolsize |-> {}]
    /\ faults = 0

\* ------------------------------------------------------------------ start()
\* start(): one _async_start_kernel task per session, then the first wait
StartCall ==
    /\ startPc = "idle"
    /\ startPc' = "waiting"
    /\ pending_init_tasks' = kernels
    /\ kinit' = [k \in Kernels |-> "starting"]
    /\ UNCHANGED <<poolsize, running, load_factor, queue, kernels, started_tasks, eval_count,
                   kterm, loop, cur, termPc, sentLeft, termResult, call, fut, ret, raised, faults>>
    /\ UNCHANGED <<servars, varintvars>>

\* _async_start_kernel: kernel.async_start() returned; the loop is spawned and registered
InitStarted(k) ==
    /\ kinit[k] = "starting"
    /\ InOrder(k)
    /\ kinit' = [kinit EXCEPT ![k] = "started"]
    /\ started_tasks' = started_tasks \cup {k}
    /\ loop' = [loop EXCEPT ![k] = "get"]
    /\ UNCHANGED <<poolsize, running, load_factor, queue, kernels, pending_init_tasks, eval_count,
                   kterm, cur, startPc, termPc, sentLeft, termResult, call, fut, ret, raised, faults>>
    /\ UNCHANGED <<servars, varintvars>>

\* _async_start_kernel: kernel.async_start() raised; the clean-up awaits async_terminate()
InitFailed(k) ==
    /\ kinit[k] = "starting"
    /\ InOrder(k)
    /\ kinit' = [kinit EXCEPT ![k] = "cleanup"]
    /\ kterm' = [kterm EXCEPT ![k] = "running"]
    /\ UNCHANGED <<poolsize, running, load_factor, queue, kernels, started_tasks, pending_init_tasks,
                   eval_count, loop, cur, startPc, termPc, sentLeft, termResult, call, fut,
                   ret, raised, faults>>
    /\ UNCHANGED <<servars, varintvars>>

\* CleanupDone without the finally clause: the session stays in self._kernels
CleanupDoneKeepsSession(k) ==
    /\ kinit[k] = "cleanup"
    /\ kinit' = [kinit EXCEPT ![k] = "failed"]
    /\ kterm' = [kterm EXCEPT ![k] = "cleaned"]
    /\ UNCHANGED <<poolsize, running, load_factor, queue, kernels, started_tasks, pending_init_tasks,
                   eval_count, loop, cur, startPc, termPc, sentLeft, termResult, call, fut,
                   ret, raised, faults>>
    /\ UNCHANGED <<servars, varintvars>>

\* _async_start_kernel: the clean-up's async_terminate() returned or raised (logged);
\* finally the session leaves self._kernels
CleanupDone(k) ==
    /\ kinit[k] = "cleanup"
    /\ kinit' = [kinit EXCEPT ![k] = "failed"]
    /\ kterm' = [kterm EXCEPT ![k] = "cleaned"]
    /\ kernels' = kernels \ {k}
    /\ UNCHANGED <<poolsize, running, load_factor, queue, started_tasks, pending_init_tasks,
                   eval_count, loop, cur, startPc, termPc, sentLeft, termResult, call, fut,
                   ret, raised, faults>>
    /\ UNCHANGED <<servars, varintvars>>

\* start_after_wait without the check of self._kernels
start_after_wait_no_raise(nkernels, nstarted) ==
    IF nstarted = 0 THEN "waiting" ELSE "returned"

\* start(), after each asyncio.wait: raise when no session is left, leave the
\* while loop when a loop is registered, wait again otherwise
start_after_wait(nkernels, nstarted) ==
    IF nkernels = 0 THEN "raised"
    ELSE IF nstarted = 0 THEN "waiting"
    ELSE "returned"

\* start(): asyncio.wait(..., FIRST_COMPLETED) returns; raise, return or wait again
StartWake ==
    /\ startPc = "waiting"
    /\ \E k \in pending_init_tasks : InitDone(k)
    /\ pending_init_tasks' = {k \in pending_init_tasks : ~InitDone(k)}
    /\ startPc' = start_after_wait(Cardinality(kernels), Cardinality(started_tasks))
    /\ UNCHANGED <<poolsize, running, load_factor, queue, kernels, started_tasks, eval_count, kinit,
                   kterm, loop, cur, termPc, sentLeft, termResult, call, fut, ret, raised, faults>>
    /\ UNCHANGED <<servars, varintvars>>

\* ------------------------------------------------------------ _kernel_loop
\* set_outcome that assigns whatever state the future is in
set_outcome_overwrites(f, outcome) == IF outcome = "ok" THEN "result" ELSE outcome

\* Future.set_result / Future.set_exception: a future that is no longer pending
\* (its caller cancelled it) raises InvalidStateError
set_outcome(f, outcome) ==
    IF f = "pending" THEN (IF outcome = "ok" THEN "result" ELSE outcome)
    ELSE "InvalidStateError"

\* after_call without the inner try: an error of the session call is raised
\* again out of the loop and never reaches the future
after_call_reraises(f, outcome) ==
    IF outcome # "ok" \/ set_outcome(f, outcome) = "InvalidStateError"
    THEN [fut |-> f, loop |-> "aborted"]
    ELSE [fut |-> set_outcome(f, outcome), loop |-> "get"]

\* _kernel_loop, after the shielded call ended with outcome ("ok" or the error it
\* raised): the inner try sets the result, its except sets the exception; an
\* InvalidStateError from either reaches the outer except Exception, whose
\* future.set_exception raises again, out of the loop
after_call(f, outcome) ==
    IF set_outcome(f, outcome) = "InvalidStateError"
    THEN [fut |-> f, loop |-> "aborted"]
    ELSE [fut |-> set_outcome(f, outcome), loop |-> "get"]

\* return await future: a caller awaiting a future that is done gets its result
\* or its exception, as it is. The resumption changes nothing else of the pool
\* and is taken together with the step that resolves the future.
await_future(f) == f
resumed(c, f) == IF c = "await" /\ f # "pending" THEN "done" ELSE c
returned(c, f, r) == IF c = "await" /\ f # "pending" THEN await_future(f) ELSE r

\* _kernel_loop: task = await self._queue.get(); None ends the loop, a task is
\* unpacked and its session call begins
LoopGet(k) ==
    /\ loop[k] = "get"
    /\ queue # <<>>
    /\ queue' = Tail(queue)
    /\ IF Head(queue) = None
       THEN /\ loop' = [loop EXCEPT ![k] = "stopped"]
            /\ cur' = [cur EXCEPT ![k] = None]
            /\ running' = running
       ELSE /\ loop' = [loop EXCEPT ![k] = "exec"]
            /\ cur' = [cur EXCEPT ![k] = Head(queue)]
            /\ running' = [running EXCEPT ![k] = @ \cup {Head(queue)}]
    /\ UNCHANGED <<poolsize, load_factor, kernels, started_tasks, pending_init_tasks,
                   eval_count, kinit, kterm, startPc, termPc, sentLeft, termResult, call,
                   fut, ret, raised, faults>>
    /\ UNCHANGED <<servars, varintvars>>

\* what the shielded session call of task t ended with
Outcome(t, raises) == IF raises THEN ErrorOf(t) ELSE "ok"

\* _kernel_loop: the shielded session call returned or raised an Exception
LoopCallEnds(k, raises) ==
    /\ loop[k] = "exec"
    /\ raised' = [raised EXCEPT ![cur[k]] = Outcome(cur[k], raises)]
    /\ fut' = [fut EXCEPT ![cur[k]] = after_call(fut[cur[k]], Outcome(cur[k], raises)).fut]
    /\ loop' = [loop EXCEPT ![k] = after_call(fut[cur[k]], Outcome(cur[k], raises)).loop]
    /\ cur' = [cur EXCEPT ![k] = None]
    /\ running' = [running EXCEPT ![k] = @ \ {cur[k]}]
    /\ call' = [call EXCEPT ![cur[k]] = resumed(@, fut'[cur[k]])]
    /\ ret' = [ret EXCEPT ![cur[k]] = returned(call[cur[k]], fut'[cur[k]], @)]
    /\ UNCHANGED <<poolsize, load_factor, queue, kernels, started_tasks, pending_init_tasks,
                   eval_count, kinit, kterm, startPc, termPc, sentLeft, termResult, faults>>
    /\ UNCHANGED <<servars, varintvars>>

\* _kernel_loop: CancelledError, KeyboardInterrupt or RuntimeError raised at
\* await self._queue.get(): logged and raised again, the loop task ends
LoopAbortsWaiting(k) ==
    /\ faults < MaxFaults
    /\ faults' = faults + 1
    /\ loop[k] = "get"
    /\ loop' = [loop EXCEPT ![k] = "aborted"]
    /\ UNCHANGED <<poolsize, running, load_factor, queue, kernels, started_tasks, pending_init_tasks,
                   eval_count, kinit, kterm, cur, startPc, termPc, sentLeft, termResult,
                   call, fut, ret, raised>>
    /\ UNCHANGED <<servars, varintvars>>

\* _kernel_loop: the loop task is cancelled while it awaits the shielded call.
\* Where CancelledError is a BaseException (Python 3.8 on) the outer handler
\* raises it again and the future stays as it is (caught = FALSE); where it is
\* an Exception (before 3.8) the inner except Exception catches it and the loop
\* goes on (caught = TRUE). Either way the call goes on behind the shield.
LoopCancelledInCall(k, caught) ==
    /\ faults < MaxFaults
    /\ faults' = faults + 1
    /\ loop[k] = "exec"
    /\ IF caught
       THEN /\ fut' = [fut EXCEPT ![cur[k]] = after_call(fut[cur[k]], "CancelledError").fut]
            /\ loop' = [loop EXCEPT ![k] = after_call(fut[cur[k]], "CancelledError").loop]
       ELSE /\ fut' = fut
            /\ loop' = [loop EXCEPT ![k] = "aborted"]
    /\ raised' = [raised EXCEPT ![cur[k]] = "cancelled"]
    /\ cur' = [cur EXCEPT ![k] = None]
    /\ call' = [call EXCEPT ![cur[k]] = resumed(@, fut'[cur[k]])]
    /\ ret' = [ret EXCEPT ![cur[k]] = returned(call[cur[k]], fut'[cur[k]], @)]
    /\ UNCHANGED <<poolsize, running, load_factor, queue, kernels, started_tasks, pending_init_tasks,
                   eval_count, kinit, kterm, startPc, termPc, sentLeft, termResult>>
    /\ UNCHANGED <<servars, varintvars>>

\* asyncio.shield: a session call whose loop was cancelled meanwhile ends on
\* its own; nothing awaits it any more and what it gives is dropped
ShieldedCallEnds(k, t) ==
    /\ t \in running[k]
    /\ cur[k] # t
    /\ running' = [running EXCEPT ![k] = @ \ {t}]
    /\ UNCHANGED <<poolsize, load_factor, queue, kernels, started_tasks, pending_init_tasks,
                   eval_count, kinit, kterm, loop, cur, startPc, termPc, sentLeft,
                   termResult, call, fut, ret, raised, faults>>
    /\ UNCHANGED <<servars, varintvars>>

\* ---------------------------------------------------------------- evaluate
\* put_evaluation_task that puts the task at the front of the queue
put_evaluation_task_front(q, t) == <<t>> \o q

\* _put_evaluation_task once self._queue.put() goes through: the task is in the
\* queue and eval_count is incremented, with no suspension in between
put_evaluation_task(q, t) == Append(q, t)

\* evaluate / evaluate_wxf / evaluate_wrap: a fresh future, then
\* _put_evaluation_task, which suspends while the queue is full
Evaluate(t) ==
    /\ call[t] = "idle"
    /\ startPc = "returned"
    /\ IF t = 1 THEN TRUE ELSE call[t - 1] # "idle"
    /\ IF full(queue)
       THEN /\ call' = [call EXCEPT ![t] = "put"]
            /\ UNCHANGED <<queue, eval_count>>
       ELSE /\ call' = [call EXCEPT ![t] = "await"]
            /\ queue' = put_evaluation_task(queue, t)
            /\ eval_count' = eval_count + 1
    /\ UNCHANGED <<poolsize, running, load_factor, kernels, started_tasks, pending_init_tasks,
                   kinit, kterm, loop, cur, startPc, termPc, sentLeft, termResult, fut,
                   ret, raised, faults>>
    /\ UNCHANGED <<servars, varintvars>>

\* a caller suspended in self._queue.put() goes on once the queue has room
PutResumes(t) ==
    /\ call[t] = "put"
    /\ ~full(queue)
    /\ call' = [call EXCEPT ![t] = "await"]
    /\ queue' = put_evaluation_task(queue, t)
    /\ eval_count' = eval_count + 1
    /\ UNCHANGED <<poolsize, running, load_factor, kernels, started_tasks, pending_init_tasks,
                   kinit, kterm, loop, cur, startPc, termPc, sentLeft, termResult, fut,
                   ret, raised, faults>>
    /\ UNCHANGED <<servars, varintvars>>

\* the caller of evaluate is cancelled: while it waits for room in the queue it
\* just leaves; while it awaits the future, the future is cancelled with it
CallerCancelled(t) ==
    /\ faults < MaxFaults
    /\ faults' = faults + 1
    /\ call[t] \in {"put", "await"}
    /\ fut[t] = "pending"
    /\ fut' = [fut EXCEPT ![t] = IF call[t] = "await" THEN "cancelled" ELSE @]
    /\ call' = [call EXCEPT ![t] = "done"]
    /\ ret' = [ret EXCEPT ![t] = "cancelled"]
    /\ UNCHANGED <<poolsize, running, load_factor, queue, kernels, started_tasks, pending_init_tasks,
                   eval_count, kinit, kterm, loop, cur, startPc, termPc, sentLeft,
                   termResult, raised>>
    /\ UNCHANGED <<servars, varintvars>>

\* --------------------------------------------------------------- terminate()
\* terminate() is called once start() has returned or raised
TermCall ==
    /\ termPc = "idle"
    /\ startPc \in {"returned", "raised"}
    /\ termPc' = "waitinit"
    /\ UNCHANGED <<poolsize, running, load_factor, queue, kernels, started_tasks, pending_init_tasks,
                   eval_count, kinit, kterm, loop, cur, startPc, sentLeft, termResult,
                   call, fut, ret, raised, faults>>
    /\ UNCHANGED <<servars, varintvars>>

\* terminate(): every pending init task is finished; one sentinel per
\* registered loop is due, or none when no loop was registered
TermInitWaited ==
    /\ termPc = "waitinit"
    /\ \A k \in pending_init_tasks : InitDone(k)
    /\ IF Cardinality(started_tasks) > 0
       THEN /\ termPc' = "put"
            /\ sentLeft' = Cardinality(started_tasks)
       ELSE /\ termPc' = "kernels"
            /\ sentLeft' = sentLeft
    /\ UNCHANGED <<poolsize, running, load_factor, queue, kernels, started_tasks, pending_init_tasks,
                   eval_count, kinit, kterm, loop, cur, startPc, termResult, call, fut,
                   ret, raised, faults>>
    /\ UNCHANGED <<servars, varintvars>>

\* terminate(): await self._queue.put(None), which suspends while the queue is full
TermPut ==
    /\ termPc = "put"
    /\ ~full(queue)
    /\ queue' = Append(queue, None)
    /\ sentLeft' = sentLeft - 1
    /\ termPc' = IF sentLeft = 1 THEN "waitloops" ELSE "put"
    /\ UNCHANGED <<poolsize, running, load_factor, kernels, started_tasks, pending_init_tasks,
                   eval_count, kinit, kterm, loop, cur, startPc, termResult, call, fut,
                   ret, raised, faults>>
    /\ UNCHANGED <<servars, varintvars>>

\* terminate(): asyncio.wait(self._started_tasks) returns once every loop task
\* has ended, however it ended
TermLoopsWaited ==
    /\ termPc = "waitloops"
    /\ \A k \in started_tasks : loop[k] \in {"stopped", "aborted"}
    /\ termPc' = "kernels"
    /\ UNCHANGED <<poolsize, running, load_factor, queue, kernels, started_tasks, pending_init_tasks,
                   eval_count, kinit, kterm, loop, cur, startPc, sentLeft, termResult,
                   call, fut, ret, raised, faults>>
    /\ UNCHANGED <<servars, varintvars>>

\* terminate() is cancelled while it is suspended in self._queue.put(None), the
\* queue being full, or in asyncio.wait(self._started_tasks): except
\* CancelledError: pass, and it goes on to the sessions. (asyncio.wait raises
\* nothing for the loops it waits for; the CancelledError caught here is that
\* of terminate() itself.)
TermCancelled ==
    /\ faults < MaxFaults
    /\ faults' = faults + 1
    /\ (termPc = "put" /\ full(queue)) \/ termPc = "waitloops"
    /\ termPc' = "kernels"
    /\ UNCHANGED <<poolsize, running, load_factor, queue, kernels, started_tasks, pending_init_tasks,
                   eval_count, kinit, kterm, loop, cur, startPc, sentLeft, termResult,
                   call, fut, ret, raised>>
    /\ UNCHANGED <<servars, varintvars>>

\* terminate(): one async_terminate() task per session still in self._kernels;
\* asyncio.wait of an empty set raises ValueError
TermKernels ==
    /\ termPc = "kernels"
    /\ IF Cardinality(kernels) = 0
       THEN /\ termPc' = "done"
            /\ termResult' = "ValueError"
            /\ kterm' = kterm
       ELSE /\ termPc' = "waitterm"
            /\ termResult' = termResult
            /\ kterm' = [k \in Kernels |-> IF k \in kernels THEN "running" ELSE kterm[k]]
    /\ UNCHANGED <<poolsize, running, load_factor, queue, kernels, started_tasks, pending_init_tasks,
                   eval_count, kinit, loop, cur, startPc, sentLeft, call, fut, ret, raised, faults>>
    /\ UNCHANGED <<servars, varintvars>>

\* a session's async_terminate(), run as a task of terminate(), returns or raises
KernelTerminated(k, res) ==
    /\ termPc = "waitterm"
    /\ k \in kernels
    /\ kterm[k] = "running"
    /\ kterm' = [kterm EXCEPT ![k] = res]
    /\ UNCHANGED <<poolsize, running, load_factor, queue, kernels, started_tasks, pending_init_tasks,
                   eval_count, kinit, loop, cur, startPc, termPc, sentLeft, termResult,
                   call, fut, ret, raised, faults>>
    /\ UNCHANGED <<servars, varintvars>>

\* asyncio.wait(tasks) returns (done, pending); it raises none of the tasks' exceptions
wait_all(results) == "ok"

\* terminate(): every async_terminate() task is done; terminate() returns
TermDone ==
    /\ termPc = "waitterm"
    /\ \A k \in kernels : kterm[k] \in {"ok", "err"}
    /\ termPc' = "done"
    /\ termResult' = wait_all({kterm[k] : k \in kernels})
    /\ UNCHANGED <<poolsize, running, load_factor, queue, kernels, started_tasks, pending_init_tasks,
                   eval_count, kinit, kterm, loop, cur, startPc, sentLeft, call, fut, ret,
                   raised, faults>>
    /\ UNCHANGED <<servars, varintvars>>

\* ============================================================ serializer.py
MaxCalls == 4
MaxLen == 2
MaxNodes == 5
MaxTokens == 3

\* ------------------------------------------------------------ varint_bytes
\* the values 0..MaxSmall are all encoded, and with them the powers of two and
\* the numbers of all ones of up to MaxBits bits
MaxSmall == 300
MaxBits == 64

\* bytearray(9)
BufLen == 9

\* Python's integers have no width. A magnitude is kept as limbs of four 7-bit
\* groups each, the least significant first; three limbs hold 84 bits.
Limb == 128 * 128 * 128 * 128
Zero == <<0, 0, 0>>
Small(n) == <<n, 0, 0>>
Pow2(b) == [i \in 1..Len(Zero) |-> IF i - 1 = b \div 28 THEN 2 ^ (b % 28) ELSE 0]
Ones(b) ==
    [i \in 1..Len(Zero) |->
        IF i - 1 < b \div 28 THEN Limb - 1
        ELSE IF i - 1 = b \div 28 THEN 2 ^ (b % 28) - 1
        ELSE 0]

\* int_value & 0x7f
low7(v) == v[1] % 128

\* int_value >> 7
shr7(v) ==
    [i \in 1..Len(v) |->
        v[i] \div 128 + (IF i < Len(v) THEN (v[i + 1] % 128) * (Limb \div 128) ELSE 0)]

\* or80 that leaves the high bit clear
or80_clear(next) == next

\* next | 0x80, for next below 128
or80(next) == next + 128

\* buf[count] = value: IndexError when count is not an index of buf
store(b, c, value) ==
    IF c < Len(b) THEN [buf |-> [b EXCEPT ![c + 1] = value], raised |-> FALSE]
    ELSE [buf |-> b, raised |-> TRUE]

\* buf[:count]
slice(b, c) == SubSeq(b, 1, c)

\* varint_bytes is not running
VarintIdle ==
    /\ vin = [neg |-> FALSE, mag |-> Zero]
    /\ int_value = Zero
    /\ buf = [i \in 1..BufLen |-> 0]
    /\ count = 0
    /\ vret = <<>>
    /\ vpc = "idle"
    /\ verr = "none"

\* ------------------------------------------------- SerializationContext
\* Python's list[i]: a negative index counts from the end of the list
at(list, i) == IF i >= 0 THEN list[i + 1] ELSE list[Len(list) + i + 1]
set_at(list, i, v) ==
    [list EXCEPT ![IF i >= 0 THEN i + 1 ELSE Len(list) + i + 1] = v]

\* SerializationContext.__init__: the root, at depth 0, expects one part
NewContext ==
    [depth |-> 0,
     expected_length_stack |-> <<1>>,
     current_index_stack |-> <<0>>,
     in_assoc_stack |-> <<FALSE>>]

\* _check_insert: TRUE when it raises IndexError
check_insert(c) ==
    /\ c.depth >= 0
    /\ at(c.current_index_stack, c.depth) >= at(c.expected_length_stack, c.depth)

\* _step_out_finalized_expr that never leaves the root
step_out_keeps_root(c) ==
    IF /\ c.depth > 0
       /\ at(c.current_index_stack, c.depth) = at(c.expected_length_stack, c.depth)
    THEN [c EXCEPT !.depth = @ - 1]
    ELSE c

\* _step_out_finalized_expr: leave every level that has all its parts
RECURSIVE step_out_finalized_expr(_)
step_out_finalized_expr(c) ==
    IF /\ c.depth >= 0
       /\ at(c.current_index_stack, c.depth) = at(c.expected_length_stack, c.depth)
    THEN step_out_finalized_expr([c EXCEPT !.depth = @ - 1])
    ELSE c

\* add_part: [ctx, raised]; nothing is changed when _check_insert raises
add_part(c) ==
    IF check_insert(c)
    THEN [ctx |-> c, raised |-> TRUE]
    ELSE [ctx |-> step_out_finalized_expr(
                      [c EXCEPT !.current_index_stack =
                           set_at(@, c.depth, at(@, c.depth) + 1)]),
          raised |-> FALSE]

\* _set_at_index_or_append, for an index that is at most the length of the array
set_at_index_or_append(array, index, value) ==
    IF Len(array) = index THEN Append(array, value)
    ELSE [array EXCEPT ![index + 1] = value]

\* step_in_new_expr that appends a count for a new level and leaves the count
\* of a level entered before as it is
step_in_new_expr_keeps_index(c, length, is_assoc) ==
    IF add_part(c).raised
    THEN [ctx |-> c, raised |-> TRUE]
    ELSE LET p == add_part(c).ctx
             d == p.depth + 1
         IN  [ctx |-> step_out_finalized_expr(
                      [depth |-> d,
                       expected_length_stack |->
                           set_at_index_or_append(p.expected_length_stack, d, length),
                       current_index_stack |->
                           IF Len(p.current_index_stack) = d
                           THEN Append(p.current_index_stack, 0)
                           ELSE p.current_index_stack,
                       in_assoc_stack |->
                           set_at_index_or_append(p.in_assoc_stack, d, is_assoc)]),
              raised |-> FALSE]

\* step_in_new_expr: add_part for the parent, one level down, the three stacks
\* set at the new depth (twice over for the first two), then step out if the
\* new expression is already complete
step_in_new_expr(c, length, is_assoc) ==
    IF add_part(c).raised
    THEN [ctx |-> c, raised |-> TRUE]
    ELSE LET p == add_part(c).ctx
             d == p.depth + 1
         IN  [ctx |-> step_out_finalized_expr(
                      [depth |-> d,
                       expected_length_stack |->
                           set_at_index_or_append(p.expected_length_stack, d, length),
                       current_index_stack |->
                           set_at_index_or_append(p.current_index_stack, d, 0),
                       in_assoc_stack |->
                           set_at_index_or_append(p.in_assoc_stack, d, is_assoc)]),
              raised |-> FALSE]

\* is_valid_final_state
is_valid_final_state(c) == c.depth = 0 - 1

\* is_rule_valid
is_rule_valid(c) == at(c.in_assoc_stack, c.depth)

\* ------------------------------------------- history of the open frames
\* The frames as section 3 of the specification describes them: a frame is
\* pushed by enter-new-node and popped when its emitted count reaches its
\* expected count. The history follows the calls the context accepted.
RECURSIVE pop_complete(_)
pop_complete(fr) ==
    IF fr # <<>> /\ fr[Len(fr)].emitted = fr[Len(fr)].expected
    THEN pop_complete(SubSeq(fr, 1, Len(fr) - 1))
    ELSE fr

record_part(fr) ==
    IF fr = <<>> THEN fr
    ELSE pop_complete([fr EXCEPT ![Len(fr)].emitted = @ + 1])

enter_new_node(fr, length, is_assoc) ==
    pop_complete(Append(record_part(fr),
                        [expected |-> length, emitted |-> 0, assoc |-> is_assoc]))

RootFrame == <<[expected |-> 1, emitted |-> 0, assoc |-> FALSE]>>

\* no open frame has room for one more part
NoRoom(fr) == fr = <<>> \/ fr[Len(fr)].emitted >= fr[Len(fr)].expected

NoCall == [op |-> "none", noroom |-> FALSE, raised |-> FALSE]

\* ------------------------------------------------------------- tokens
\* A WXF token is an atom, whose _serialize_to_wxf calls context.add_part(), or
\* the head of an expression with a declared number of parts, whose
\* _serialize_to_wxf calls context.step_in_new_expr(length, is_assoc).
Atom == [kind |-> "atom", length |-> 0, is_assoc |-> FALSE]
Expr(n, a) == [kind |-> "expr", length |-> n, is_assoc |-> a]

\* the context call of one token
serialize_to_wxf(c, tok) ==
    IF tok.kind = "atom" THEN add_part(c)
    ELSE step_in_new_expr(c, tok.length, tok.is_assoc)

track(fr, tok) ==
    IF tok.kind = "atom" THEN record_part(fr)
    ELSE enter_new_node(fr, tok.length, tok.is_assoc)

\* the values the pool has while a serializer specification runs, and back
PoolIdle ==
    /\ poolsize = 1
    /\ load_factor = 0
    /\ queue = <<>>
    /\ kernels = {}
    /\ started_tasks = {}
    /\ pending_init_tasks = NotSet
    /\ eval_count = 0
    /\ kinit = <<"new">>
    /\ kterm = <<"no">>
    /\ loop = <<"none">>
    /\ cur = <<None>>
    /\ startPc = "idle"
    /\ termPc = "idle"
    /\ sentLeft = 0
    /\ termResult = "none"
    /\ call = [t \in Tasks |-> "idle"]
    /\ fut = [t \in Tasks |-> "pending"]
    /\ ret = [t \in Tasks |-> "none"]
    /\ raised = [t \in Tasks |-> "none"]
    /\ faults = 0
    /\ running = <<{}>>

SerIdle ==
    /\ context = NewContext
    /\ frames = RootFrame
    /\ last = NoCall
    /\ ncalls = 0
    /\ minlen = 0
    /\ tokens = <<>>
    /\ truncated = FALSE
    /\ compress = FALSE
    /\ out = <<>>
    /\ zipped = 0
    /\ serPc = "idle"
    /\ serErr = "none"

\* ---------------------------------------- CtxSpec: any sequence of calls
Lengths == minlen..MaxLen

CtxInit ==
    /\ PoolIdle
    /\ context = NewContext
    /\ frames = RootFrame
    /\ last = NoCall
    /\ ncalls = 0
    /\ minlen \in {0 - 1, 0}
    /\ tokens = <<>>
    /\ truncated = FALSE
    /\ compress = FALSE
    /\ out = <<>>
    /\ zipped = 0
    /\ serPc = "idle"
    /\ serErr = "none"
    /\ VarintIdle

\* one call on the context, add_part() or step_in_new_expr(length, is_assoc)
Call(tok) ==
    /\ ncalls < MaxCalls
    /\ ncalls' = ncalls + 1
    /\ context' = serialize_to_wxf(context, tok).ctx
    /\ last' = [op |-> tok.kind, noroom |-> NoRoom(frames),
                raised |-> serialize_to_wxf(context, tok).raised]
    /\ frames' = IF serialize_to_wxf(context, tok).raised THEN frames
                 ELSE track(frames, tok)
    /\ UNCHANGED <<minlen, tokens, truncated, compress, out, zipped, serPc, serErr>>
    /\ UNCHANGED <<poolvars, varintvars>>

CallAddPart == Call(Atom)

CallStepIn(length, is_assoc) == Call(Expr(length, is_assoc))

CtxNext ==
    \/ CallAddPart
    \/ \E length \in Lengths, is_assoc \in BOOLEAN : CallStepIn(length, is_assoc)

CtxSpec == CtxInit /\ [][CtxNext]_vars

\* -------------------- TreeSpec: the calls of a correct recursive encoder
\* A tree is an atom or an expression with a sequence of parts. TreesN(n) are
\* the trees of n nodes, ForestsN(n) the sequences of trees of n nodes in all.
AtomTree == [atom |-> TRUE, parts |-> <<>>]
ExprTree(f) == [atom |-> FALSE, parts |-> f]

RECURSIVE TreesN(_), ForestsN(_)
TreesN(n) ==
    IF n = 1 THEN {AtomTree, ExprTree(<<>>)}
    ELSE {ExprTree(f) : f \in ForestsN(n - 1)}
ForestsN(n) ==
    IF n = 0 THEN {<<>>}
    ELSE UNION {{<<t>> \o f : t \in TreesN(k), f \in ForestsN(n - k)} : k \in 1..n}

Trees == UNION {TreesN(n) : n \in 1..MaxNodes}

\* the tokens of a tree, depth first, an expression's head before its parts
RECURSIVE Encode(_), EncodeParts(_, _)
Encode(t) ==
    IF t.atom THEN <<Atom>>
    ELSE <<Expr(Len(t.parts), FALSE)>> \o EncodeParts(t.parts, Len(t.parts))
EncodeParts(f, n) ==
    IF n = 0 THEN <<>> ELSE EncodeParts(f, n - 1) \o Encode(f[n])

\* the paths (part numbers, from the root) to the expressions that have parts
RECURSIVE Paths(_)
Paths(t) ==
    IF t.atom \/ t.parts = <<>> THEN {}
    ELSE {<<>>} \cup UNION {{<<i>> \o q : q \in Paths(t.parts[i])} : i \in 1..Len(t.parts)}

\* the tokens of t with the last part of the expression at path p left out: the
\* head still declares the full length
RECURSIVE EncodeWithout(_, _), EncodePartsWithout(_, _, _)
EncodeWithout(t, p) ==
    IF p = <<>>
    THEN <<Expr(Len(t.parts), FALSE)>> \o EncodeParts(t.parts, Len(t.parts) - 1)
    ELSE <<Expr(Len(t.parts), FALSE)>> \o EncodePartsWithout(t.parts, Len(t.parts), p)
EncodePartsWithout(f, n, p) ==
    IF n = 0 THEN <<>>
    ELSE EncodePartsWithout(f, n - 1, p)
         \o (IF n = p[1] THEN EncodeWithout(f[n], Tail(p)) ELSE Encode(f[n]))

TreeInit ==
    /\ PoolIdle
    /\ context = NewContext
    /\ frames = RootFrame
    /\ last = NoCall
    /\ ncalls = 0
    /\ minlen = 0
    /\ \E t \in Trees :
          \/ tokens = Encode(t) /\ truncated = FALSE
          \/ \E p \in Paths(t) : tokens = EncodeWithout(t, p) /\ truncated = TRUE
    /\ compress = FALSE
    /\ out = <<>>
    /\ zipped = 0
    /\ serPc = "idle"
    /\ serErr = "none"
    /\ VarintIdle

\* the encoder's next call on the context; an IndexError ends the traversal
Drive ==
    /\ tokens # <<>>
    /\ serErr = "none"
    /\ tokens' = Tail(tokens)
    /\ ncalls' = ncalls + 1
    /\ context' = serialize_to_wxf(context, Head(tokens)).ctx
    /\ last' = [op |-> Head(tokens).kind, noroom |-> NoRoom(frames),
                raised |-> serialize_to_wxf(context, Head(tokens)).raised]
    /\ frames' = IF serialize_to_wxf(context, Head(tokens)).raised THEN frames
                 ELSE track(frames, Head(tokens))
    /\ serErr' = IF serialize_to_wxf(context, Head(tokens)).raised THEN "IndexError"
                 ELSE serErr
    /\ UNCHANGED <<minlen, truncated, compress, out, zipped, serPc>>
    /\ UNCHANGED <<poolvars, varintvars>>

TreeNext == Drive

TreeSpec == TreeInit /\ [][TreeNext]_vars

\* ------------------------------------------- SerSpec: WXFExprSerializer
WXF_VERSION == "8"
WXF_HEADER_SEPARATOR == ":"
WXF_HEADER_COMPRESS == "C"

TokenKinds == {Atom} \cup {Expr(n, a) : n \in (0 - 1)..MaxLen, a \in BOOLEAN}

RECURSIVE TokenSeqs(_)
TokenSeqs(n) ==
    IF n = 0 THEN {<<>>}
    ELSE TokenSeqs(n - 1)
         \cup {<<tok>> \o ts : tok \in TokenKinds, ts \in {x \in TokenSeqs(n - 1) : Len(x) = n - 1}}

\* WXFExprSerializer.__init__ with enforce=True, and the tokens the provider
\* will yield for the expression given to serialize()
SerInit ==
    /\ PoolIdle
    /\ context = NewContext
    /\ frames = RootFrame
    /\ last = NoCall
    /\ ncalls = 0
    /\ minlen = 0 - 1
    /\ tokens \in TokenSeqs(MaxTokens)
    /\ truncated = FALSE
    /\ compress \in BOOLEAN
    /\ out = <<>>
    /\ zipped = 0
    /\ serPc = "version"
    /\ serErr = "none"
    /\ VarintIdle

\* serialize: self._writer.write(WXF_VERSION)
WriteVersion ==
    /\ serPc = "version"
    /\ out' = Append(out, WXF_VERSION)
    /\ serPc' = IF compress THEN "compress" ELSE "separator"
    /\ UNCHANGED <<context, frames, last, ncalls, minlen, tokens, truncated, compress,
                   zipped, serErr>>
    /\ UNCHANGED <<poolvars, varintvars>>

\* serialize: if self._compress: self._writer.write(WXF_HEADER_COMPRESS)
WriteCompress ==
    /\ serPc = "compress"
    /\ out' = Append(out, WXF_HEADER_COMPRESS)
    /\ serPc' = "separator"
    /\ UNCHANGED <<context, frames, last, ncalls, minlen, tokens, truncated, compress,
                   zipped, serErr>>
    /\ UNCHANGED <<poolvars, varintvars>>

\* serialize: self._writer.write(WXF_HEADER_SEPARATOR)
WriteSeparator ==
    /\ serPc = "separator"
    /\ out' = Append(out, WXF_HEADER_SEPARATOR)
    /\ serPc' = "tokens"
    /\ UNCHANGED <<context, frames, last, ncalls, minlen, tokens, truncated, compress,
                   zipped, serErr>>
    /\ UNCHANGED <<poolvars, varintvars>>

\* ZipCompressedWriter.__exit__: the compressed container reaches the stream
zip_exit(o, n) == Append(o, "zip")

\* serialize, one turn of the for loop: wxfexpr._serialize_to_wxf(writer, context)
\* calls the context and writes the token, to the stream or to the compressing
\* writer; an exception of the context leaves serialize (through the with block)
SerializeToken ==
    /\ serPc = "tokens"
    /\ tokens # <<>>
    /\ tokens' = Tail(tokens)
    /\ ncalls' = ncalls + 1
    /\ context' = serialize_to_wxf(context, Head(tokens)).ctx
    /\ last' = [op |-> Head(tokens).kind, noroom |-> NoRoom(frames),
                raised |-> serialize_to_wxf(context, Head(tokens)).raised]
    /\ frames' = IF serialize_to_wxf(context, Head(tokens)).raised THEN frames
                 ELSE track(frames, Head(tokens))
    /\ IF serialize_to_wxf(context, Head(tokens)).raised
       THEN /\ serErr' = "IndexError"
            /\ serPc' = "raised"
            /\ out' = IF compress THEN zip_exit(out, zipped) ELSE out
            /\ zipped' = 0
       ELSE /\ serErr' = serErr
            /\ serPc' = serPc
            /\ out' = IF compress THEN out ELSE Append(out, "token")
            /\ zipped' = IF compress THEN zipped + 1 ELSE zipped
    /\ UNCHANGED <<minlen, truncated, compress>>
    /\ UNCHANGED <<poolvars, varintvars>>

\* final_check that takes depth 0, the root still open, for the final state
final_check_root_open(c) == IF c.depth > 0 THEN "truncated" ELSE "none"

\* serialize, after the for loop: 'Inconsistent state: truncated expr.' unless
\* the context is in its final state
final_check(c) == IF ~is_valid_final_state(c) THEN "truncated" ELSE "none"

\* serialize: the provider is exhausted; the with block (if any) is left, then
\* the final state is checked
SerializeEnds ==
    /\ serPc = "tokens"
    /\ tokens = <<>>
    /\ out' = IF compress THEN zip_exit(out, zipped) ELSE out
    /\ zipped' = 0
    /\ serErr' = final_check(context)
    /\ serPc' = IF final_check(context) = "none" THEN "returned" ELSE "raised"
    /\ UNCHANGED <<context, frames, last, ncalls, minlen, tokens, truncated, compress>>
    /\ UNCHANGED <<poolvars, varintvars>>

SerNext ==
    \/ WriteVersion
    \/ WriteCompress
    \/ WriteSeparator
    \/ SerializeToken
    \/ SerializeEnds

SerSpec == SerInit /\ [][SerNext]_vars

\* ------------------------------------------------------------ Spec: the pool
\* ------------------------------------------------- varint_bytes, its calls
\* the magnitudes varint_bytes is called with
Mags ==
    {Small(n) : n \in 0..MaxSmall}
    \cup {Pow2(b) : b \in 0..(MaxBits - 1)}
    \cup {Ones(b) : b \in 1..MaxBits}

VarintInputs ==
    {[neg |-> FALSE, mag |-> m] : m \in Mags}
    \cup {[neg |-> TRUE, mag |-> m] : m \in {Small(1), Ones(MaxBits)}}

\* varint_bytes(int_value): buf = bytearray(9)
VarintInit ==
    /\ PoolIdle
    /\ SerIdle
    /\ vin \in VarintInputs
    /\ int_value = vin.mag
    /\ buf = [i \in 1..BufLen |-> 0]
    /\ count = 0
    /\ vret = <<>>
    /\ vpc = "check"
    /\ verr = "none"

\* varint_bytes: a negative value raises TypeError
VarintCheck ==
    /\ vpc = "check"
    /\ IF vin.neg
       THEN vpc' = "raised" /\ verr' = "TypeError"
       ELSE vpc' = "loop" /\ verr' = verr
    /\ UNCHANGED <<vin, int_value, buf, count, vret>>
    /\ UNCHANGED <<poolvars, servars>>

\* varint_bytes: one turn of the while loop; the last group ends it and
\* buf[:count] is returned
VarintLoop ==
    /\ vpc = "loop"
    /\ int_value' = shr7(int_value)
    /\ LET next == low7(int_value)
           st == store(buf, count, IF shr7(int_value) # Zero THEN or80(next) ELSE next)
       IN  IF st.raised
           THEN /\ vpc' = "raised"
                /\ verr' = "IndexError"
                /\ UNCHANGED <<buf, count, vret>>
           ELSE /\ buf' = st.buf
                /\ count' = count + 1
                /\ verr' = verr
                /\ IF shr7(int_value) # Zero
                   THEN vpc' = "loop" /\ vret' = vret
                   ELSE vpc' = "returned" /\ vret' = slice(st.buf, count + 1)
    /\ UNCHANGED vin
    /\ UNCHANGED <<poolvars, servars>>

VarintNext == VarintCheck \/ VarintLoop

VarintSpec == VarintInit /\ [][VarintNext]_vars

Init == PoolInit /\ SerIdle /\ VarintIdle

Next ==
    \/ StartCall
    \/ \E k \in Kernels : InitStarted(k)
    \/ \E k \in Kernels : InitFailed(k)
    \/ \E k \in Kernels : CleanupDone(k)
    \/ StartWake
    \/ \E k \in Kernels : LoopGet(k)
    \/ \E k \in Kernels, raises \in BOOLEAN : LoopCallEnds(k, raises)
    \/ \E k \in Kernels : LoopAbortsWaiting(k)
    \/ \E k \in Kernels, caught \in BOOLEAN : LoopCancelledInCall(k, caught)
    \/ \E k \in Kernels, t \in Tasks : ShieldedCallEnds(k, t)
    \/ \E t \in Tasks : Evaluate(t)
    \/ \E t \in Tasks : PutResumes(t)
    \/ \E t \in Tasks : CallerCancelled(t)
    \/ TermCall
    \/ TermInitWaited
    \/ TermPut
    \/ TermLoopsWaited
    \/ TermCancelled
    \/ TermKernels
    \/ \E k \in Kernels, res \in {"ok", "err"} : KernelTerminated(k, res)
    \/ TermDone

Spec == Init /\ [][Next]_vars

\* =================================================================== claims
\* ---------------------------------------------------------------- the pool
\* the steps by which a shutdown goes on: those of terminate(), of the worker
\* loops, of the sessions being started and of the sessions being terminated
ShutdownStep ==
    \/ TermInitWaited
    \/ TermPut
    \/ TermLoopsWaited
    \/ TermKernels
    \/ TermDone
    \/ \E k \in Kernels, res \in {"ok", "err"} : KernelTerminated(k, res)
    \/ \E k \in Kernels : LoopGet(k)
    \/ \E k \in Kernels, raises \in BOOLEAN : LoopCallEnds(k, raises)
    \/ \E k \in Kernels : InitStarted(k)
    \/ \E k \in Kernels : InitFailed(k)
    \/ \E k \in Kernels : CleanupDone(k)

\* the tasks that went into the queue
Enqueued(t) == call[t] = "await" \/ (call[t] = "done" /\ fut[t] # "pending")

InQueue(t) == \E i \in 1..Len(queue) : queue[i] = t

\* C1: when the session operation of a task raises an ordinary error E while
\* the caller still awaits the future, the caller's await fails with E itself,
\* and the loop that ran the task is back at its wait for the next queue entry.
C1_ErrorReachesCaller ==
    /\ [](\A t \in Tasks :
            (raised[t] = ErrorOf(t) /\ fut[t] # "cancelled")
            => (fut[t] = ErrorOf(t) /\ call[t] = "done" /\ ret[t] = ErrorOf(t)))
    /\ [][\A k \in Kernels :
            (/\ loop[k] = "exec"
             /\ fut[cur[k]] = "pending"
             /\ raised'[cur[k]] = ErrorOf(cur[k]))
            => loop'[k] = "get"]_vars

\* C1 witness: the one loop of a pool of one ran task 1, which raised and whose
\* caller got that error, and then ran task 2 to its result.
C1_Witness ==
    /\ poolsize = 1
    /\ raised[1] = ErrorOf(1)
    /\ ret[1] = ErrorOf(1)
    /\ raised[2] = "ok"
    /\ ret[2] = "result"

\* C2 (the claim as stated): terminate() always gets to invoke the terminate
\* operation of every session: when it has returned every session was
\* terminated, and until then the shutdown is never stuck.
C2_TerminateReachesEverySession ==
    /\ termPc = "done" => \A k \in Kernels : kterm[k] # "no"
    /\ (termPc \notin {"idle", "done"} /\ \E k \in Kernels : kterm[k] = "no")
       => ENABLED ShutdownStep

\* C3: with a positive load factor the queue never holds more than
\* load_factor * poolsize items; a caller that finds it full is suspended with
\* its task not queued and not counted, and is resumed only when the queue has
\* room again; with load_factor <= 0 no caller is ever suspended on the put.
C3_Backpressure ==
    /\ [](load_factor > 0 => Len(queue) <= load_factor * poolsize)
    /\ [](\A t \in Tasks : call[t] = "put" => (~InQueue(t) /\ \A k \in Kernels : cur[k] # t))
    /\ [](eval_count = Cardinality({t \in Tasks : Enqueued(t)}))
    /\ [](load_factor <= 0 => \A t \in Tasks : call[t] # "put")
    /\ [][\A t \in Tasks :
            /\ (call[t] = "idle" /\ call'[t] # "idle"
                /\ load_factor > 0 /\ Len(queue) = load_factor * poolsize)
               => (call'[t] = "put" /\ queue' = queue /\ eval_count' = eval_count)
            /\ (call[t] = "put" /\ call'[t] = "await")
               => (Len(queue) < load_factor * poolsize /\ InQueue(t)')]_vars

\* C3 witness: poolsize 1, load factor 1; task 1 is still in the queue and the
\* second caller is suspended, its task neither queued nor counted.
C3_Witness ==
    /\ poolsize = 1
    /\ load_factor = 1
    /\ queue = <<1>>
    /\ call[1] = "await"
    /\ call[2] = "put"
    /\ eval_count = 1

\* C4: when every session failed to start, start() raises: it has not returned
\* and is not left waiting for nothing; when it has raised, self._kernels is
\* empty and no loop was spawned.
C4_AllFailedStartRaises ==
    /\ (\A k \in Kernels : kinit[k] = "failed")
       => (startPc # "returned" /\ (startPc = "waiting" => ENABLED StartWake))
    /\ startPc = "raised"
       => (/\ kernels = {}
           /\ started_tasks = {}
           /\ \A k \in Kernels : kinit[k] = "failed" /\ loop[k] = "none")

\* C4 witness: start() raised after both sessions of a pool of two failed.
C4_Witness == startPc = "raised" /\ poolsize = 2 /\ termPc = "idle"

C6_TerminateSurfacesError ==
    (termPc = "done" /\ \E k \in kernels : kterm[k] = "err") => termResult = "err"

\* ----------------------------------------------------------- the serializer
\* C7 (the claim as stated): a call made when no open frame has room for one
\* more part, the root frame included, raises; it never goes through.
C7_OverflowAlwaysRaises == last.noroom => last.raised

\* C8: the calls of a correct encoder for a well-formed tree raise nothing and
\* end in the final state; with the last part of one expression left out they
\* end in a state that is not final.
C8_TreeEndsFinal ==
    /\ ~truncated => serErr = "none"
    /\ (tokens = <<>> /\ ~truncated) => is_valid_final_state(context)
    /\ (tokens = <<>> /\ truncated) => ~is_valid_final_state(context)

\* C8 witness: all the tokens of a tree that lacks the last part of one of its
\* expressions were driven through the context, three calls at least.
C8_Witness ==
    /\ tokens = <<>>
    /\ truncated
    /\ ncalls >= 3
    /\ serErr = "none"
    /\ context.depth >= 0

\* C9 (the claim as stated): is_rule_valid() is true only if there is an
\* innermost open frame and it was opened with is_assoc = True.
C9_RuleValidOnlyInAssocFrame ==
    is_rule_valid(context) => (frames # <<>> /\ frames[Len(frames)].assoc)

\* C10: serialize() raises the 'truncated expr' error exactly when no token
\* raised and the context is not in its final state once the tokens are
\* exhausted; never while tokens remain, and in both modes only after the
\* header, '8', then 'C' when compressing, then ':'.
HeaderWritten ==
    IF compress
    THEN Len(out) >= 3 /\ SubSeq(out, 1, 3) = <<"8", "C", ":">>
    ELSE Len(out) >= 2 /\ SubSeq(out, 1, 2) = <<"8", ":">>

C10_TruncatedAtTheEnd ==
    /\ serPc \in {"returned", "raised"}
       => (serErr = "truncated"
           <=> (serErr # "IndexError" /\ ~is_valid_final_state(context)))
    /\ serPc \in {"version", "compress", "separator", "tokens"} => serErr = "none"
    /\ serErr = "truncated" => (tokens = <<>> /\ serPc = "raised" /\ HeaderWritten)
    /\ serPc = "returned" => (tokens = <<>> /\ HeaderWritten)

\* C10 witness: a compressed serialization of two tokens or more ended with
\* the 'truncated expr' error.
C10_Witness ==
    /\ serErr = "truncated"
    /\ compress
    /\ ncalls >= 2
    /\ out = <<"8", "C", ":", "zip">>

\* the place of task t in the queue q that holds it
Pos(q, t) == CHOOSE i \in 1..Len(q) : q[i] = t
Holds(q, t) == \E i \in 1..Len(q) : q[i] = t

\* C11: tasks leave the queue in the order they went in, whatever loop takes
\* them: a task enqueued while another is in the queue stands behind it, the
\* order of the tasks in the queue never changes, a task never leaves the queue
\* while one enqueued before it is still there, and a loop that takes a task
\* takes the one at the head.
C11_FifoAcrossThePool ==
    [][/\ \A a, b \in Tasks :
             (Holds(queue, a) /\ ~Holds(queue, b) /\ Holds(queue', b) /\ Holds(queue', a))
             => Pos(queue', a) < Pos(queue', b)
       /\ \A a, b \in Tasks :
             (Holds(queue, a) /\ Holds(queue, b) /\ Pos(queue, a) < Pos(queue, b))
             => /\ Holds(queue', b)
                /\ Holds(queue', a) => Pos(queue', a) < Pos(queue', b)
       /\ \A k \in Kernels :
             (cur'[k] # cur[k] /\ cur'[k] # None)
             => (queue # <<>> /\ cur'[k] = Head(queue) /\ queue' = Tail(queue))]_vars

\* C11 witness: in a pool of two loops both tasks were enqueued and taken, task 1
\* by the second loop and task 2 by the first, and both are being executed.
C11_Witness ==
    /\ poolsize = 2
    /\ queue = <<>>
    /\ cur = <<2, 1>>
    /\ loop = <<"exec", "exec">>

\* -------------------------------------------------------------- the varint
\* v * 128 + b, for b below 128
mul128add(v, b) ==
    [i \in 1..Len(v) |->
        (v[i] % (Limb \div 128)) * 128
        + (IF i = 1 THEN b ELSE v[i - 1] \div (Limb \div 128))]

\* the sum of (byte & 0x7f) << 7 * i over the bytes, the first byte at i = 0
RECURSIVE Decode(_)
Decode(bytes) ==
    IF bytes = <<>> THEN Zero
    ELSE mul128add(Decode(Tail(bytes)), Head(bytes) % 128)

\* v < 2 ^ b
Below(v, b) ==
    \A i \in 1..Len(v) :
        IF i - 1 > b \div 28 THEN v[i] = 0
        ELSE IF i - 1 = b \div 28 THEN v[i] < 2 ^ (b % 28)
        ELSE TRUE

\* the number of 7-bit groups of v, one for 0
GroupsOf(v) == CHOOSE n \in 1..12 : Below(v, 7 * n) /\ (n = 1 \/ ~Below(v, 7 * (n - 1)))

\* C12: for a value of at most nine 7-bit groups varint_bytes returns, and what
\* it returns is the value's groups, the least significant first, one byte
\* each, the high bit set on every byte but the last, no zero group at the end
\* unless it is the only one; the bytes decode to the value; 0, 127, 128 and
\* 300 give 00, 7F, 80 01 and AC 02.
C12_VarintGroups ==
    /\ vpc = "returned" =>
          /\ Len(vret) >= 1
          /\ \A i \in 1..(Len(vret) - 1) : vret[i] \in 128..255
          /\ vret[Len(vret)] \in 0..127
          /\ Len(vret) = 1 \/ vret[Len(vret)] # 0
          /\ Decode(vret) = vin.mag
          /\ ~vin.neg
    /\ (vpc \in {"returned", "raised"} /\ ~vin.neg /\ Below(vin.mag, 7 * BufLen))
          => vpc = "returned"
    /\ (vpc = "returned" /\ vin.mag = Small(0)) => vret = <<0>>
    /\ (vpc = "returned" /\ vin.mag = Small(127)) => vret = <<127>>
    /\ (vpc = "returned" /\ vin.mag = Small(128)) => vret = <<128, 1>>
    /\ (vpc = "returned" /\ vin.mag = Small(300)) => vret = <<172, 2>>

\* C12 witness: varint_bytes(300) returned AC 02.
C12_Witness ==
    /\ vpc = "returned"
    /\ vin = [neg |-> FALSE, mag |-> Small(300)]
    /\ vret = <<172, 2>>

\* C13 (the claim as stated): for every value from 0 to 2^64 - 1 varint_bytes
\* raises nothing and returns one byte for each 7-bit group of the value.
C13_VarintFullRange ==
    (~vin.neg /\ Below(vin.mag, 64))
    => /\ verr = "none"
       /\ vpc = "returned" => Len(vret) = GroupsOf(vin.mag)

\* ------------------------------------------------- the pool, further claims
\* C14 (the claim as stated): when a loop is ended from outside while a task is
\* in flight, the failure is recorded in the task's future before the loop
\* exits, so the future of such a task is never left pending.
C14_InFlightFailureRecorded ==
    \A t \in Tasks : raised[t] = "cancelled" => fut[t] # "pending"

\* C15 (the claim as stated): terminate() invokes no session's async_terminate()
\* before every start attempt has finished, every sentinel is in the queue and
\* every registered loop has exited.
C15_TerminateInOrder ==
    termPc \in {"waitterm", "done"}
    => /\ \A k \in Kernels : kinit[k] \in {"failed", "started"}
       /\ sentLeft = 0
       /\ \A k \in started_tasks : loop[k] \in {"stopped", "aborted"}

\* how many times task t stands in the queue q
Occurrences(q, t) == Cardinality({i \in 1..Len(q) : q[i] = t})

\* C16: a task is consumed once, by one loop: it is never twice in the queue,
\* never held by two loops, never both queued and held, and once its session
\* call has ended it is neither queued nor held nor executed again; a future is
\* assigned at most once: once it is no longer pending it never changes.
C16_ConsumedOnceAssignedOnce ==
    /\ [](\A t \in Tasks :
            /\ Occurrences(queue, t) + Cardinality({k \in Kernels : cur[k] = t}) <= 1
            /\ raised[t] # "none"
               => (Occurrences(queue, t) = 0 /\ \A k \in Kernels : cur[k] # t))
    /\ [][\A t \in Tasks :
            /\ fut[t] # "pending" => fut'[t] = fut[t]
            /\ raised[t] # "none" => raised'[t] = raised[t]
            /\ (Occurrences(queue, t) = 0 /\ Occurrences(queue', t) = 1)
               => (call[t] \in {"idle", "put"} /\ call'[t] = "await")]_vars

\* C16 witness: the caller of task 1 cancelled its future, the session call of
\* task 1 then returned, and the future is still the cancelled one.
C16_Witness ==
    /\ fut[1] = "cancelled"
    /\ raised[1] = "ok"
    /\ ret[1] = "cancelled"

\* C17 (the claim as stated): at most one session call runs on a session at any
\* time, and none runs on a session whose loop has taken the stop sentinel.
C17_OneCallPerSession ==
    \A k \in Kernels :
        /\ Cardinality(running[k]) <= 1
        /\ loop[k] = "stopped" => running[k] = {}

\* ------------------------------------------------- the serializer, further
\* C18: with declared lengths of 0 or more, after every call the depth is -1 or
\* more, every level from 0 to the depth has fewer parts than its declared
\* length (a level that has them all was left), and the levels are the frames
\* that were entered and are not yet complete, with their counts.
C18_OpenFramesHaveRoom ==
    minlen = 0 =>
        /\ context.depth >= 0 - 1
        /\ Len(frames) = context.depth + 1
        /\ \A i \in 1..(context.depth + 1) :
              /\ context.current_index_stack[i] >= 0
              /\ context.current_index_stack[i] < context.expected_length_stack[i]
              /\ frames[i].emitted = context.current_index_stack[i]
              /\ frames[i].expected = context.expected_length_stack[i]

\* C18 witness: two expressions of two parts are open, one in the other, each
\* with one part so far, the last of them an atom.
C18_Witness ==
    /\ minlen = 0
    /\ context.depth = 1
    /\ context.current_index_stack = <<1, 1>>
    /\ context.expected_length_stack = <<2, 2>>
    /\ last.op = "atom"
    /\ ~last.raised

\* ------------------------------------------------- the pool, further claims
\* C19 (the claim as stated): the cancellation of a caller's wait ends no loop:
\* as long as the only events from outside were callers cancelled, no loop has
\* ended other than by the stop sentinel.
C19_CallerCancelKeepsLoops ==
    faults = Cardinality({t \in Tasks : ret[t] = "cancelled"})
    => \A k \in Kernels : loop[k] # "aborted"

\* C20 (the claim as stated): when no loop has aborted, terminate() gets past
\* its wait for the loops only when every registered loop has taken a stop
\* sentinel and exited, no sentinel is left in the queue, and every task still
\* awaited by its caller is one that is still in the queue, enqueued after the
\* last sentinel.
C20_ShutdownServesAcceptedWork ==
    (/\ termPc \in {"kernels", "waitterm", "done"}
     /\ started_tasks # {}
     /\ \A k \in Kernels : loop[k] # "aborted")
    => /\ \A k \in started_tasks : loop[k] = "stopped"
       /\ \A i \in 1..Len(queue) : queue[i] # None
       /\ \A t \in Tasks : call[t] = "await" => Holds(queue, t)

====
